---- MODULE Spec2Model ----
(***************************************************************************)
(* Model of the video summariser / quiz generator:                         *)
(*   - the interactive Streamlit application (src/streamlit_app.py),        *)
(*   - the settings loader (src/utils.py),                                  *)
(*   - the batch scripts (src/new.py, src/unnamed/part_000).                *)
(* A Streamlit script is re-executed top to bottom on every user            *)
(* interaction; st.session_state survives between the executions.  The      *)
(* hosted model calls, the file system and the user are the environment:    *)
(* their outcomes are chosen nondeterministically.                          *)
(***************************************************************************)
EXTENDS Integers, Sequences, FiniteSets, TLC

(***************************************************************************)
(* Bounds of the model                                                      *)
(***************************************************************************)
\* number of processing runs followed in one session
MaxRuns == 2
\* number of distinct non-empty byte contents a user can upload
NumContents == 2

(***************************************************************************)
(* Program constants                                                        *)
(***************************************************************************)
MAX_FILE_SIZE_MB == 500
BytesPerMB == 1048576
SUPPORTED_VIDEO_FORMATS ==
  { <<"m","p","4">>, <<"a","v","i">>, <<"m","o","v">>, <<"m","k","v">>,
    <<"w","e","b","m">>, <<"f","l","v">>, <<"m","4","v">> }
max_retries == 3
MinDescriptionLen == 50
MinQuizLen == 100
GeminiMinLen == 30
GroqMinLen == 40

(***************************************************************************)
(* Values                                                                   *)
(***************************************************************************)
\* Python's None, for the session fields that hold a text or a hash
None == <<>>

\* st.file_uploader returns None or an UploadedFile with .name, .size and
\* the bytes; the bytes are identified by their length and an identity
NoFile == [present |-> FALSE, name |-> <<>>, size |-> 0, id |-> 0]

\* str.lower() on the characters the model uses
LowerChar(c) ==
  CASE c = "M" -> "m"
    [] c = "P" -> "p"
    [] c = "T" -> "t"
    [] OTHER -> c

Lower(s) == [i \in 1..Len(s) |-> LowerChar(s[i])]

\* the positions of '.' in a name
DotPositions(s) == { i \in 1..Len(s) : s[i] = "." }

\* name.split('.')[-1]: the text after the last '.', the whole name when
\* the name has no '.'
LastSplit(s) ==
  IF DotPositions(s) = {} THEN s
  ELSE LET p == CHOOSE i \in DotPositions(s) : \A j \in DotPositions(s) : j <= i
       IN  SubSeq(s, p + 1, Len(s))

\* a digest that also depends on the file name
get_file_hash_WithName(f) ==
  IF f.size = 0 THEN <<"md5", 0, 0, f.name>> ELSE <<"md5", f.size, f.id, f.name>>

\* hashlib.md5(file_content).hexdigest(): a function of the bytes alone;
\* all empty contents are the same bytes
get_file_hash(f) ==
  IF f.size = 0 THEN <<"md5", 0, 0>> ELSE <<"md5", f.size, f.id>>

(***************************************************************************)
(* Pure functions of the interactive application                            *)
(***************************************************************************)
\* An API key is a string; the model keeps its first characters and its
\* length, which is all validate_api_keys looks at
EmptyKey == [head |-> <<>>, len |-> 0]

startswith(key, prefix) ==
  /\ key.len >= Len(prefix)
  /\ Len(key.head) >= Len(prefix)
  /\ SubSeq(key.head, 1, Len(prefix)) = prefix

validate_api_keys_GroqLenExclusive(gemini_key, groq_key) ==
  IF gemini_key.len = 0 \/ groq_key.len = 0
    THEN [ok |-> FALSE, msg |-> "Both API keys are required"]
  ELSE IF ~startswith(gemini_key, <<"A","I">>) \/ gemini_key.len < GeminiMinLen
    THEN [ok |-> FALSE, msg |-> "Invalid Gemini API key format"]
  ELSE IF ~startswith(groq_key, <<"g","s","k","_">>) \/ groq_key.len <= GroqMinLen
    THEN [ok |-> FALSE, msg |-> "Invalid Groq API key format"]
  ELSE [ok |-> TRUE, msg |-> "API keys validated successfully"]

\* lines 51-68; the operations on the two strings raise nothing, so the
\* handler of line 66 is never entered
validate_api_keys(gemini_key, groq_key) ==
  IF gemini_key.len = 0 \/ groq_key.len = 0
    THEN [ok |-> FALSE, msg |-> "Both API keys are required"]
  ELSE IF ~startswith(gemini_key, <<"A","I">>) \/ gemini_key.len < GeminiMinLen
    THEN [ok |-> FALSE, msg |-> "Invalid Gemini API key format"]
  ELSE IF ~startswith(groq_key, <<"g","s","k","_">>) \/ groq_key.len < GroqMinLen
    THEN [ok |-> FALSE, msg |-> "Invalid Groq API key format"]
  ELSE [ok |-> TRUE, msg |-> "API keys validated successfully"]

\* a validator that looks at the emptiness before the extension
validate_video_file_EmptyFirst(f) ==
  IF ~f.present
    THEN [ok |-> FALSE, msg |-> "No file uploaded"]
  ELSE IF f.size > MAX_FILE_SIZE_MB * BytesPerMB
    THEN [ok |-> FALSE, msg |-> "File size exceeds maximum allowed size"]
  ELSE IF f.size = 0
    THEN [ok |-> FALSE, msg |-> "File is empty"]
  ELSE IF Lower(LastSplit(f.name)) \notin SUPPORTED_VIDEO_FORMATS
    THEN [ok |-> FALSE, msg |-> "Unsupported file format"]
  ELSE [ok |-> TRUE, msg |-> "File validation successful"]

\* a validator whose size test also rejects a file of exactly the maximum
validate_video_file_SizeInclusive(f) ==
  IF ~f.present
    THEN [ok |-> FALSE, msg |-> "No file uploaded"]
  ELSE IF f.size >= MAX_FILE_SIZE_MB * BytesPerMB
    THEN [ok |-> FALSE, msg |-> "File size exceeds maximum allowed size"]
  ELSE IF Lower(LastSplit(f.name)) \notin SUPPORTED_VIDEO_FORMATS
    THEN [ok |-> FALSE, msg |-> "Unsupported file format"]
  ELSE IF f.size = 0
    THEN [ok |-> FALSE, msg |-> "File is empty"]
  ELSE [ok |-> TRUE, msg |-> "File validation successful"]

\* file_size_mb = size / (1024 * 1024) is exact in floating point for the
\* sizes in question, so file_size_mb > MAX_FILE_SIZE_MB is the integer
\* comparison below
validate_video_file(f) ==
  IF ~f.present
    THEN [ok |-> FALSE, msg |-> "No file uploaded"]
  ELSE IF f.size > MAX_FILE_SIZE_MB * BytesPerMB
    THEN [ok |-> FALSE, msg |-> "File size exceeds maximum allowed size"]
  ELSE IF Lower(LastSplit(f.name)) \notin SUPPORTED_VIDEO_FORMATS
    THEN [ok |-> FALSE, msg |-> "Unsupported file format"]
  ELSE IF f.size = 0
    THEN [ok |-> FALSE, msg |-> "File is empty"]
  ELSE [ok |-> TRUE, msg |-> "File validation successful"]

\* validate_video_file called on an object: the test for None comes first;
\* an exception raised by the reads of .size and .name that follow
\* (raises) is caught at line 95 and turned into a rejection
validate_video_file_call(f, raises) ==
  IF f.present /\ raises
    THEN [ok |-> FALSE, msg |-> "Error validating file"]
    ELSE validate_video_file(f)

\* cleanup_temp_files(file_paths) on a disk: every listed path that exists
\* is unlinked; an unlink that raises (the paths in failing) is logged and
\* the loop goes on
cleanup_temp_files(onDisk, file_paths, failing) ==
  onDisk \ (file_paths \ failing)

(***************************************************************************)
(* State of the interactive application                                     *)
(***************************************************************************)
VARIABLES
  \* st.session_state
  analysis_results, quiz_results, processed_file_hash,
  api_keys_validated, processing_status,
  \* widget values held by the browser
  gemini_api_key, groq_api_key, uploaded_file,
  \* the running script: where it is, and its local variables
  pc, file_hash, temp_files, retry_count, knowledge_text, quiz_content,
  \* what the last finished script run left on the page
  view,
  \* the local disk: the temporary files that exist
  disk,
  \* bookkeeping of the current (or last) processing run
  run, created, scheduled, cleanups, attempts, sleeps, lastExit, served,
  \* history of the session: the byte contents whose run completed since the
  \* last reprocess (all of them, and those not overwritten by a later run),
  \* the bytes the last reprocess was for and the run counter at that moment
  everCompleted, completed, reprocessed, clearedUpTo

appVars ==
  << analysis_results, quiz_results, processed_file_hash,
     api_keys_validated, processing_status,
     gemini_api_key, groq_api_key, uploaded_file,
     pc, file_hash, temp_files, retry_count, knowledge_text, quiz_content,
     view, disk, run, created, scheduled, cleanups, attempts, sleeps,
     lastExit, served, everCompleted, completed, reprocessed, clearedUpTo >>

(***************************************************************************)
(* Inputs of the interactive application                                    *)
(***************************************************************************)
GeminiKeys ==
  { EmptyKey, [head |-> <<"A","I","z","a">>, len |-> GeminiMinLen] }

GroqKeys ==
  { [head |-> <<"g","s","k","_">>, len |-> GroqMinLen - 1],
    [head |-> <<"g","s","k","_">>, len |-> GroqMinLen] }

Mp4Name == <<"a",".","m","p","4">>
TxtName == <<"a",".","t","x","t">>
UpperName == <<"b",".","M","P","4">>

UploadChoices ==
  { [present |-> TRUE, name |-> Mp4Name, size |-> 10, id |-> i] : i \in 1..NumContents }
  \cup
  { NoFile,
    [present |-> TRUE, name |-> UpperName, size |-> 10, id |-> 1],
    [present |-> TRUE, name |-> Mp4Name, size |-> 0, id |-> 0],
    [present |-> TRUE, name |-> Mp4Name, size |-> MAX_FILE_SIZE_MB * BytesPerMB + 1, id |-> 1],
    [present |-> TRUE, name |-> TxtName, size |-> 11, id |-> 1] }

\* what a hosted model call can give back: an exception, or a response
\* whose content has a length and a length after strip()
Raised == [raised |-> TRUE, raw |-> 0, stripped |-> 0]

Content(raw, stripped) == [raised |-> FALSE, raw |-> raw, stripped |-> stripped]

DescriptionOutcomes ==
  { Raised, Content(0, 0), Content(MinDescriptionLen, MinDescriptionLen - 1),
    Content(MinDescriptionLen, MinDescriptionLen) }

QuizOutcomes ==
  { Raised, Content(0, 0), Content(MinQuizLen, MinQuizLen - 1),
    Content(MinQuizLen, MinQuizLen) }

(***************************************************************************)
(* The script from its top to the Analyze button (lines 126-291)            *)
(***************************************************************************)
\* Python truthiness of a session field that holds None or a text
Truthy(x) == x # None

\* a sidebar that only looks whether the two keys were entered
KeysValidated_NonEmpty(g, k) ==
  g.len # 0 /\ k.len # 0

\* lines 161-170: the flag is recomputed from the two text inputs
KeysValidated(g, k) ==
  IF g.len # 0 /\ k.len # 0 THEN validate_api_keys(g, k).ok ELSE FALSE

\* lines 229-231: the cached-results branch is taken
CacheHit(f, hash, analysis, quiz) ==
  /\ f.present
  /\ hash = get_file_hash(f)
  /\ Truthy(analysis)
  /\ Truthy(quiz)

\* the script guarded by a flag that is not looked at: the button is never
\* disabled
TopView_NoStatusGuard(g, k, f, hash, analysis, quiz, status) ==
  IF ~KeysValidated(g, k) THEN "nokeys"
  ELSE IF f.present /\ ~validate_video_file(f).ok THEN "invalid"
  ELSE IF CacheHit(f, hash, analysis, quiz) THEN "cached"
  ELSE IF ~f.present THEN "nofile"
  ELSE "ready"

\* what the script shows when it runs with these widget values and this
\* session state and the Analyze button is not being clicked
TopView(g, k, f, hash, analysis, quiz, status) ==
  IF ~KeysValidated(g, k) THEN "nokeys"
  ELSE IF f.present /\ ~validate_video_file(f).ok THEN "invalid"
  ELSE IF CacheHit(f, hash, analysis, quiz) THEN "cached"
  ELSE IF ~f.present THEN "nofile"
  ELSE IF status = "processing" THEN "disabled"
  ELSE "ready"

\* the pair the cached-results branch displays (lines 240-244)
Served(v, analysis, quiz) ==
  IF v = "cached" THEN <<analysis, quiz>> ELSE None

AppInit ==
  /\ analysis_results = None
  /\ quiz_results = None
  /\ processed_file_hash = None
  /\ api_keys_validated = FALSE
  /\ processing_status = "idle"
  /\ gemini_api_key = EmptyKey
  /\ groq_api_key = EmptyKey
  /\ uploaded_file = NoFile
  /\ pc = "idle"
  /\ file_hash = None
  /\ temp_files = <<>>
  /\ retry_count = 0
  /\ knowledge_text = None
  /\ quiz_content = None
  /\ view = "nokeys"
  /\ disk = {}
  /\ run = 0
  /\ created = {}
  /\ scheduled = {}
  /\ cleanups = 0
  /\ attempts = [desc |-> 0, quiz |-> 0]
  /\ sleeps = [desc |-> 0, quiz |-> 0]
  /\ lastExit = "none"
  /\ served = None
  /\ everCompleted = {}
  /\ completed = {}
  /\ reprocessed = None
  /\ clearedUpTo = 0

\* the local variables and the bookkeeping of a processing run
runVars ==
  << file_hash, temp_files, retry_count, knowledge_text, quiz_content,
     disk, run, created, scheduled, cleanups, attempts, sleeps >>

cacheVars == << analysis_results, quiz_results, processed_file_hash >>

histVars == << everCompleted, completed, reprocessed, clearedUpTo >>

\* the bytes of an uploaded file (uploaded_file.getvalue())
BytesOf(f) == IF f.size = 0 THEN <<0, 0>> ELSE <<f.size, f.id>>

\* A script execution starts with fresh variables: nothing of the previous
\* execution is left but the session state and the disk; file_hash is
\* assigned at line 226 when the script gets there
FreshScript(v, f) ==
  /\ file_hash' = IF v \in {"cached", "ready", "disabled"}
                    THEN get_file_hash(f) ELSE None
  /\ temp_files' = <<>>
  /\ retry_count' = 0
  /\ knowledge_text' = None
  /\ quiz_content' = None
  /\ created' = {}
  /\ scheduled' = {}
  /\ cleanups' = 0
  /\ attempts' = [desc |-> 0, quiz |-> 0]
  /\ sleeps' = [desc |-> 0, quiz |-> 0]
  /\ UNCHANGED << disk, run >>

\* A user interaction other than a button click: the widget values become
\* g, k, f and the script runs from the top.  A script that was running is
\* stopped by the framework's rerun signal, which is not an Exception, so
\* no handler of the script runs.
Rerender(g, k, f) ==
  LET v == TopView(g, k, f, processed_file_hash, analysis_results,
                   quiz_results, processing_status)
  IN  /\ gemini_api_key' = g
      /\ groq_api_key' = k
      \* the uploader is not rendered when the script stops at line 194,
      \* and the framework drops the value of a widget that is not rendered
      /\ uploaded_file' = IF KeysValidated(g, k) THEN f ELSE NoFile
      /\ api_keys_validated' = KeysValidated(g, k)
      /\ view' = v
      /\ served' = Served(v, analysis_results, quiz_results)
      /\ pc' = "idle"
      /\ lastExit' = IF pc # "idle" THEN "interrupted" ELSE "none"
      /\ FreshScript(v, IF KeysValidated(g, k) THEN f ELSE NoFile)
      /\ UNCHANGED << cacheVars, processing_status, histVars >>

EnterKeys(g, k) ==
  /\ <<g, k>> # <<gemini_api_key, groq_api_key>>
  /\ Rerender(g, k, uploaded_file)

\* an uploader that empties the session fields when the bytes are not those
\* of the stored hash
UploadFile_ClearsEntry(f) ==
  /\ f # uploaded_file
  /\ view # "nokeys"
  /\ LET other == f.present /\ get_file_hash(f) # processed_file_hash
         v == TopView(gemini_api_key, groq_api_key, f, processed_file_hash,
                      analysis_results, quiz_results, processing_status)
     IN  /\ analysis_results' = IF other THEN None ELSE analysis_results
         /\ quiz_results' = IF other THEN None ELSE quiz_results
         /\ processed_file_hash' = IF other THEN None ELSE processed_file_hash
         /\ uploaded_file' = f
         /\ view' = v
         /\ served' = Served(v, analysis_results, quiz_results)
         /\ pc' = "idle"
         /\ lastExit' = IF pc # "idle" THEN "interrupted" ELSE "none"
         /\ FreshScript(v, f)
         /\ UNCHANGED << gemini_api_key, groq_api_key, api_keys_validated,
                         processing_status, histVars >>

UploadFile(f) ==
  /\ f # uploaded_file
  /\ view # "nokeys"
  /\ Rerender(gemini_api_key, groq_api_key, f)

\* toggling the usage-tips checkbox (line 132)
ToggleTips ==
  Rerender(gemini_api_key, groq_api_key, uploaded_file)

(***************************************************************************)
(* The processing run (lines 291-567)                                       *)
(***************************************************************************)
Range(q) == { q[i] : i \in 1..Len(q) }

\* The Analyze button is on the page, enabled: the last script run rendered
\* it with the status idle, or the run in progress did before line 290
AnalyzeClickable == view \in {"ready", "result", "failed", "running"}

\* the text the description step keeps (lines 397-400): the content when it
\* is non-empty, str(response) otherwise
DescriptionText(resp, hash, r) ==
  IF resp.raw > 0 THEN <<"content", hash, r>> ELSE <<"repr", hash, r>>

\* len(knowledge_text.strip()): str(response) is the repr of the response
\* object, which is longer than the floor
DescriptionStrippedLen(resp) ==
  IF resp.raw > 0 THEN resp.stripped ELSE MinDescriptionLen

\* lines 402-403
DescriptionAccepted(resp) ==
  /\ ~resp.raised
  /\ ~(DescriptionStrippedLen(resp) < MinDescriptionLen)

\* lines 478-481
QuizAccepted(resp) ==
  /\ ~resp.raised
  /\ resp.raw > 0
  /\ ~(resp.stripped < MinQuizLen)

\* an off-by-one test that allows one attempt more
RetriesExhausted_OffByOne(count) == count > max_retries

\* lines 411 and 489: the attempts are used up
RetriesExhausted(count) == count >= max_retries

\* a store that sets the hash and forgets the quiz
QuizStore_HashOnly(content, hash) ==
  [quiz_results |-> None, processed_file_hash |-> hash]

\* lines 499-500: what the run stores after the quiz step
QuizStore(content, hash) == [quiz_results |-> content, processed_file_hash |-> hash]

\* the quiz prompt embeds knowledge_text (line 447)
QuizText(text) == <<"quiz", text>>

\* Click on Analyze: a script in progress is stopped by the rerun signal and
\* the script runs from the top with the same widget values; st.button
\* returns True at line 288 only for the enabled button, which is the
\* clicked widget (the disabled one has another label); the cached-results
\* branch stops the script before it
ClickAnalyze ==
  /\ AnalyzeClickable
  /\ LET v == TopView(gemini_api_key, groq_api_key, uploaded_file,
                      processed_file_hash, analysis_results, quiz_results,
                      processing_status)
     IN  IF v = "ready"
           THEN /\ run < MaxRuns
                /\ processing_status' = "processing"
                /\ pc' = "tmpfile"
                /\ view' = "running"
                /\ served' = None
                /\ file_hash' = get_file_hash(uploaded_file)
                /\ temp_files' = <<>>
                /\ retry_count' = 0
                /\ knowledge_text' = None
                /\ quiz_content' = None
                /\ run' = run + 1
                /\ created' = {}
                /\ scheduled' = {}
                /\ cleanups' = 0
                /\ attempts' = [desc |-> 0, quiz |-> 0]
                /\ sleeps' = [desc |-> 0, quiz |-> 0]
                /\ lastExit' = "running"
                /\ UNCHANGED << cacheVars, api_keys_validated, gemini_api_key,
                                groq_api_key, uploaded_file, disk, histVars >>
           ELSE /\ view' = v
                /\ served' = Served(v, analysis_results, quiz_results)
                /\ pc' = "idle"
                /\ lastExit' = IF pc # "idle" THEN "interrupted" ELSE "none"
                /\ FreshScript(v, uploaded_file)
                /\ UNCHANGED << cacheVars, api_keys_validated, processing_status,
                                gemini_api_key, groq_api_key, uploaded_file,
                                histVars >>

\* a reprocess that leaves the quiz in the session state
ClickReprocess_KeepsQuiz ==
  /\ pc = "idle"
  /\ view = "cached"
  /\ analysis_results' = None
  /\ quiz_results' = quiz_results
  /\ processed_file_hash' = None
  /\ LET v == TopView(gemini_api_key, groq_api_key, uploaded_file,
                      None, None, quiz_results, processing_status)
     IN  /\ view' = v
         /\ served' = Served(v, None, quiz_results)
  /\ everCompleted' = {}
  /\ completed' = {}
  /\ reprocessed' = BytesOf(uploaded_file)
  /\ clearedUpTo' = run
  /\ UNCHANGED << api_keys_validated, processing_status, gemini_api_key,
                  groq_api_key, uploaded_file, pc, runVars, lastExit >>

\* Click on Reprocess in the cached-results branch (lines 249-253): the
\* three fields are cleared and st.rerun() runs the script again at once
ClickReprocess ==
  /\ pc = "idle"
  /\ view = "cached"
  /\ analysis_results' = None
  /\ quiz_results' = None
  /\ processed_file_hash' = None
  /\ LET v == TopView(gemini_api_key, groq_api_key, uploaded_file,
                      None, None, None, processing_status)
     IN  /\ view' = v
         /\ served' = Served(v, None, None)
  /\ everCompleted' = {}
  /\ completed' = {}
  /\ reprocessed' = BytesOf(uploaded_file)
  /\ clearedUpTo' = run
  /\ UNCHANGED << api_keys_validated, processing_status, gemini_api_key,
                  groq_api_key, uploaded_file, pc, runVars, lastExit >>

\* a failure exit that stops the script without the cleanup pass
FailExit_NoCleanup(kind, onDisk, failing) ==
  /\ disk' = onDisk
  /\ scheduled' = scheduled
  /\ cleanups' = cleanups
  /\ processing_status' = "idle"
  /\ pc' = "idle"
  /\ view' = "failed"
  /\ lastExit' = kind

\* The exits of the processing run that call cleanup_temp_files and reset
\* the status: lines 333-335, 413-415, 491-493 (followed by st.stop()) and
\* the outer handler, lines 554-557
FailExit(kind, onDisk, failing) ==
  /\ disk' = cleanup_temp_files(onDisk, Range(temp_files), failing)
  /\ scheduled' = scheduled \cup Range(temp_files)
  /\ cleanups' = cleanups + 1
  /\ processing_status' = "idle"
  /\ pc' = "idle"
  /\ view' = "failed"
  /\ lastExit' = kind

\* lines 312-316: the temporary file exists as soon as NamedTemporaryFile
\* returns; its path is appended to temp_files after the write
WriteTempFile(outcome, failing) ==
  /\ pc = "tmpfile"
  /\ \/ /\ outcome = "ok"
        /\ failing = {}
        /\ disk' = disk \cup {run}
        /\ created' = {run}
        /\ temp_files' = Append(temp_files, run)
        /\ pc' = "load"
        /\ UNCHANGED << scheduled, cleanups, processing_status, view, lastExit >>
     \/ /\ outcome = "write_raises"
        /\ failing = {}
        /\ created' = {run}
        /\ temp_files' = temp_files
        /\ FailExit("exception", disk \cup {run}, failing)
     \/ /\ outcome = "create_raises"
        /\ failing = {}
        /\ FailExit("exception", disk, failing)
        /\ UNCHANGED << created, temp_files >>
  /\ UNCHANGED << cacheVars, api_keys_validated, gemini_api_key, groq_api_key,
                  uploaded_file, file_hash, retry_count, knowledge_text,
                  quiz_content, run, attempts, sleeps, served, histVars >>

\* lines 322-335
LoadVideo(outcome, failing) ==
  /\ pc = "load"
  /\ failing \subseteq Range(temp_files)
  /\ \/ /\ outcome = "ok"
        /\ failing = {}
        /\ pc' = "describe"
        /\ retry_count' = 0
        /\ UNCHANGED << disk, scheduled, cleanups, processing_status, view, lastExit >>
     \/ /\ outcome = "fails"
        /\ FailExit("load_failure", disk, failing)
        /\ UNCHANGED retry_count
  /\ UNCHANGED << cacheVars, api_keys_validated, gemini_api_key, groq_api_key,
                  uploaded_file, file_hash, temp_files, knowledge_text,
                  quiz_content, run, created, attempts, sleeps, served,
                  histVars >>

\* One iteration of the description retry loop (lines 345-418) and, when
\* it succeeds, the store of line 421
DescribeAttempt(resp, failing) ==
  /\ pc = "describe"
  /\ failing \subseteq Range(temp_files)
  /\ attempts' = [attempts EXCEPT !.desc = @ + 1]
  /\ IF DescriptionAccepted(resp)
       THEN /\ failing = {}
            /\ knowledge_text' = DescriptionText(resp, file_hash, run)
            /\ analysis_results' = knowledge_text'
            /\ retry_count' = 0
            /\ pc' = "quiz"
            /\ UNCHANGED << disk, scheduled, cleanups, processing_status, view,
                            lastExit, sleeps >>
       ELSE /\ retry_count' = retry_count + 1
            /\ IF RetriesExhausted(retry_count')
                 THEN /\ FailExit("desc_exhausted", disk, failing)
                      /\ UNCHANGED sleeps
                 ELSE /\ failing = {}
                      /\ sleeps' = [sleeps EXCEPT !.desc = @ + 1]
                      /\ UNCHANGED << disk, scheduled, cleanups,
                                      processing_status, view, lastExit, pc >>
            /\ UNCHANGED << knowledge_text, analysis_results >>
  /\ UNCHANGED << quiz_results, processed_file_hash, api_keys_validated,
                  gemini_api_key, groq_api_key, uploaded_file, file_hash,
                  temp_files, quiz_content, run, created, served, histVars >>

\* One iteration of the quiz retry loop (lines 436-496) and, when it
\* succeeds, the stores of lines 499-500
QuizAttempt(resp, failing) ==
  /\ pc = "quiz"
  /\ failing \subseteq Range(temp_files)
  /\ attempts' = [attempts EXCEPT !.quiz = @ + 1]
  /\ IF QuizAccepted(resp)
       THEN /\ failing = {}
            /\ quiz_content' = QuizText(knowledge_text)
            /\ quiz_results' = QuizStore(quiz_content', file_hash).quiz_results
            /\ processed_file_hash' =
                  QuizStore(quiz_content', file_hash).processed_file_hash
            /\ completed' = completed \cap {BytesOf(uploaded_file)}
            /\ pc' = "cleanup"
            /\ UNCHANGED << disk, scheduled, cleanups, processing_status, view,
                            lastExit, sleeps, retry_count >>
       ELSE /\ retry_count' = retry_count + 1
            /\ IF RetriesExhausted(retry_count')
                 THEN /\ FailExit("quiz_exhausted", disk, failing)
                      /\ UNCHANGED sleeps
                 ELSE /\ failing = {}
                      /\ sleeps' = [sleeps EXCEPT !.quiz = @ + 1]
                      /\ UNCHANGED << disk, scheduled, cleanups,
                                      processing_status, view, lastExit, pc >>
            /\ UNCHANGED << quiz_content, quiz_results, processed_file_hash,
                            completed >>
  /\ UNCHANGED << analysis_results, api_keys_validated, gemini_api_key,
                  groq_api_key, uploaded_file, file_hash, temp_files,
                  knowledge_text, run, created, served, everCompleted,
                  reprocessed, clearedUpTo >>

\* line 509
SuccessCleanup(failing) ==
  /\ pc = "cleanup"
  /\ failing \subseteq Range(temp_files)
  /\ disk' = cleanup_temp_files(disk, Range(temp_files), failing)
  /\ scheduled' = scheduled \cup Range(temp_files)
  /\ cleanups' = cleanups + 1
  /\ pc' = "reset"
  /\ UNCHANGED << cacheVars, api_keys_validated, processing_status,
                  gemini_api_key, groq_api_key, uploaded_file, file_hash,
                  temp_files, retry_count, knowledge_text, quiz_content, view,
                  run, created, attempts, sleeps, lastExit, served, histVars >>

\* line 516, and the download buttons after it
ResetStatus ==
  /\ pc = "reset"
  /\ processing_status' = "idle"
  /\ pc' = "idle"
  /\ view' = "result"
  /\ lastExit' = "success"
  /\ everCompleted' = everCompleted \cup {BytesOf(uploaded_file)}
  /\ completed' = completed \cup {BytesOf(uploaded_file)}
  /\ UNCHANGED << cacheVars, api_keys_validated, gemini_api_key, groq_api_key,
                  uploaded_file, runVars, served, reprocessed, clearedUpTo >>

\* An exception raised by a statement of the try block that is outside the
\* two retry loops (a display call between the steps): the outer handler,
\* lines 540-557
RaiseUnexpected(failing) ==
  /\ \/ pc \in {"load", "cleanup", "reset"}
     \/ pc = "quiz" /\ attempts.quiz = 0
  /\ failing \subseteq Range(temp_files)
  /\ FailExit("exception", disk, failing)
  /\ UNCHANGED << cacheVars, api_keys_validated, gemini_api_key, groq_api_key,
                  uploaded_file, file_hash, temp_files, retry_count,
                  knowledge_text, quiz_content, run, created, attempts, sleeps,
                  served, histVars >>

(***************************************************************************)
(* validate_video_file on its own                                           *)
(***************************************************************************)
\* longest file name tried
MaxNameLen == 5

VARIABLES
  \* the object validated, whether reading its attributes raises, and the
  \* result of the call
  val_file, val_raises, val_result

valVars == << val_file, val_raises, val_result >>

NameChars == {".", "m", "p", "4", "M"}

SeqsUpTo(S, n) == UNION { [1..k -> S] : k \in 0..n }

NoResult == [ok |-> FALSE, msg |-> "not called"]

ValidateSizes ==
  { 0, 1, MAX_FILE_SIZE_MB * BytesPerMB, MAX_FILE_SIZE_MB * BytesPerMB + 1 }

ValidateInputs ==
  { NoFile } \cup
  { [present |-> TRUE, name |-> n, size |-> sz, id |-> 1] :
      n \in SeqsUpTo(NameChars, MaxNameLen), sz \in ValidateSizes }

ValIdle == val_file = NoFile /\ val_raises = FALSE /\ val_result = NoResult

\* line 217: the script calls validate_video_file on the uploader's value
Validate ==
  /\ val_result = NoResult
  /\ val_result' = validate_video_file_call(val_file, val_raises)
  /\ UNCHANGED << val_file, val_raises >>

(***************************************************************************)
(* validate_api_keys on its own                                             *)
(***************************************************************************)
\* how far from the two minimum lengths the key lengths tried are
KeySlack == 1

VARIABLES key_gemini, key_groq, key_result

keyVars == << key_gemini, key_groq, key_result >>

KeyLens ==
  (GeminiMinLen - KeySlack)..(GeminiMinLen + KeySlack)
  \cup (GroqMinLen - KeySlack)..(GroqMinLen + KeySlack)

\* the first four characters of the keys tried
KeyHeads ==
  { <<"A","I","z","a">>, <<"a","I","z","a">>, <<"A","i","z","a">>,
    <<"I","A","z","a">>, <<" ","A","I","z">>,
    <<"g","s","k","_">>, <<"g","s","k","-">>, <<"G","s","k","_">> }

KeyInputs ==
  { EmptyKey, [head |-> <<"A","I">>, len |-> 2], [head |-> <<"g","s","k">>, len |-> 3] }
  \cup { [head |-> h, len |-> n] : h \in KeyHeads, n \in KeyLens }

KeyIdle ==
  /\ key_gemini = EmptyKey
  /\ key_groq = EmptyKey
  /\ key_result = NoResult

\* line 162: the sidebar calls validate_api_keys on the two text inputs
ValidateKeys ==
  /\ key_result = NoResult
  /\ key_result' = validate_api_keys(key_gemini, key_groq)
  /\ UNCHANGED << key_gemini, key_groq >>

(***************************************************************************)
(* cleanup_temp_files on its own: the loop of lines 117-123                 *)
(***************************************************************************)
\* longest list of paths tried, which is also the number of distinct paths
MaxPaths == 2

\* calls of cleanup_temp_files on the same list
MaxCleanupCalls == 2

VARIABLES
  \* the files that exist, and the list the function is called with
  cl_disk, cl_paths,
  \* where the call is: not made yet, in the loop, returned, or left by an
  \* exception; and the index of the next path of the loop
  cl_pc, cl_i,
  \* of the current call: the files that existed when it was made, the paths
  \* os.unlink was called on and those on which it raised
  cl_disk0, cl_attempted, cl_failed,
  \* the calls made and all the calls of os.unlink so far
  cl_calls, cl_unlinks

clVars ==
  << cl_disk, cl_paths, cl_pc, cl_i, cl_disk0, cl_attempted, cl_failed,
     cl_calls, cl_unlinks >>

CleanupPaths == 1..MaxPaths

ClIdle ==
  /\ cl_disk = {}
  /\ cl_paths = <<>>
  /\ cl_pc = "idle"
  /\ cl_i = 1
  /\ cl_disk0 = {}
  /\ cl_attempted = {}
  /\ cl_failed = {}
  /\ cl_calls = 0
  /\ cl_unlinks = 0

\* cleanup_temp_files(file_paths) is called (lines 334, 414, 492, 509, 554)
CallCleanup ==
  /\ cl_pc \in {"idle", "returned"}
  /\ cl_calls < MaxCleanupCalls
  /\ cl_pc' = "loop"
  /\ cl_i' = 1
  /\ cl_disk0' = cl_disk
  /\ cl_attempted' = {}
  /\ cl_failed' = {}
  /\ cl_calls' = cl_calls + 1
  /\ UNCHANGED << cl_disk, cl_paths, cl_unlinks >>

\* a loop without the try: an exception of os.unlink leaves the function
CleanupStep_NoTry(raises) ==
  /\ cl_pc = "loop"
  /\ cl_i <= Len(cl_paths)
  /\ raises => cl_paths[cl_i] \in cl_disk
  /\ LET file_path == cl_paths[cl_i]
     IN  IF file_path \in cl_disk
           THEN /\ cl_attempted' = cl_attempted \cup {file_path}
                /\ cl_unlinks' = cl_unlinks + 1
                /\ cl_failed' = IF raises THEN cl_failed \cup {file_path}
                                          ELSE cl_failed
                /\ cl_disk' = IF raises THEN cl_disk ELSE cl_disk \ {file_path}
                /\ cl_pc' = IF raises THEN "raised" ELSE "loop"
           ELSE /\ UNCHANGED << cl_attempted, cl_unlinks, cl_failed, cl_disk,
                                cl_pc >>
  /\ cl_i' = cl_i + 1
  /\ UNCHANGED << cl_paths, cl_disk0, cl_calls >>

\* lines 117-123, one iteration: os.unlink is called when the path exists;
\* an exception it raises is caught and logged, and the loop goes on
CleanupStep(raises) ==
  /\ cl_pc = "loop"
  /\ cl_i <= Len(cl_paths)
  /\ raises => cl_paths[cl_i] \in cl_disk
  /\ LET file_path == cl_paths[cl_i]
     IN  IF file_path \in cl_disk
           THEN /\ cl_attempted' = cl_attempted \cup {file_path}
                /\ cl_unlinks' = cl_unlinks + 1
                /\ cl_failed' = IF raises THEN cl_failed \cup {file_path}
                                          ELSE cl_failed
                /\ cl_disk' = IF raises THEN cl_disk ELSE cl_disk \ {file_path}
           ELSE UNCHANGED << cl_attempted, cl_unlinks, cl_failed, cl_disk >>
  /\ cl_i' = cl_i + 1
  /\ UNCHANGED << cl_paths, cl_pc, cl_disk0, cl_calls >>

\* the list is exhausted: the function returns
CleanupReturn ==
  /\ cl_pc = "loop"
  /\ cl_i > Len(cl_paths)
  /\ cl_pc' = "returned"
  /\ UNCHANGED << cl_disk, cl_paths, cl_i, cl_disk0, cl_attempted, cl_failed,
                  cl_calls, cl_unlinks >>

(***************************************************************************)
(* The settings loader (src/utils.py)                                       *)
(***************************************************************************)
\* longest settings value tried
MaxValueLen == 2

\* number of constructions of AppConfig followed
MaxConstructions == 2

VARIABLES
  \* self.config of the instance, the getter call made and what it gave
  cfg_config, cfg_call, cfg_result,
  \* the settings file: the empty tuple when it does not exist, its content
  \* in a 1-tuple when it does
  cfg_disk,
  \* the number of times the settings file was written
  cfg_writes,
  \* what the typed accessors gave after each construction, in order
  cfg_loaded

cfgVars == << cfg_config, cfg_call, cfg_result, cfg_disk, cfg_writes, cfg_loaded >>

ValueChars == {"1", "0", "x", "%", ","}

Digits == {"0", "1", "2", "3", "4", "5", "6", "7", "8", "9"}

DigitValue(c) ==
  CHOOSE n \in 0..9 : <<"0", "1", "2", "3", "4", "5", "6", "7", "8", "9">>[n + 1] = c

\* a call of the library or of a getter either raises or returns a value
Raises(exc) == [raised |-> TRUE, exc |-> exc, value |-> None]
Returns(v) == [raised |-> FALSE, exc |-> "", value |-> v]

\* configparser.BasicInterpolation on a value: "%%" stands for "%", and a
\* "%" followed by anything but "%" or "(" is a syntax error
RECURSIVE Interpolate(_)
Interpolate(v) ==
  IF v = <<>> THEN Returns(<<>>)
  ELSE IF Head(v) # "%"
    THEN LET rest == Interpolate(Tail(v))
         IN  IF rest.raised THEN rest ELSE Returns(<<Head(v)>> \o rest.value)
  ELSE IF Len(v) >= 2 /\ v[2] = "%"
    THEN LET rest == Interpolate(SubSeq(v, 3, Len(v)))
         IN  IF rest.raised THEN rest ELSE Returns(<<"%">> \o rest.value)
  ELSE Raises("InterpolationSyntaxError")

\* ConfigParser.get(section, key) without a fallback
RawGet(config, section, key) ==
  IF section \notin DOMAIN config THEN Raises("NoSectionError")
  ELSE IF key \notin DOMAIN config[section] THEN Raises("NoOptionError")
  ELSE Interpolate(config[section][key])

\* int(text) on the characters the model uses
RECURSIVE DecimalValue(_)
DecimalValue(v) ==
  IF v = <<>> THEN 0
  ELSE 10 * DecimalValue(SubSeq(v, 1, Len(v) - 1))
         + DigitValue(v[Len(v)])

ToInt(v) ==
  IF v # <<>> /\ \A i \in 1..Len(v) : v[i] \in Digits
    THEN Returns(DecimalValue(v))
    ELSE Raises("ValueError")

\* ConfigParser.BOOLEAN_STATES
TrueWords == { <<"1">>, <<"y","e","s">>, <<"t","r","u","e">>, <<"o","n">> }
FalseWords == { <<"0">>, <<"n","o">>, <<"f","a","l","s","e">>, <<"o","f","f">> }

\* ConfigParser._convert_to_boolean
ToBoolean(v) ==
  IF Lower(v) \in TrueWords THEN Returns(TRUE)
  ELSE IF Lower(v) \in FalseWords THEN Returns(FALSE)
  ELSE Raises("ValueError")

\* ConfigParser.get / getint / getboolean with fallback=: the fallback
\* replaces NoSectionError and NoOptionError only
Convert(kind, text) ==
  CASE kind = "int" -> ToInt(text)
    [] kind = "boolean" -> ToBoolean(text)
    [] OTHER -> Returns(text)

LibGet(config, section, key, fallback, kind) ==
  LET raw == RawGet(config, section, key)
  IN  IF raw.raised
        THEN IF raw.exc \in {"NoSectionError", "NoOptionError"}
               THEN Returns(fallback) ELSE raw
        ELSE Convert(kind, raw.value)

\* try: ... except (caught): return fallback
Guarded(res, caught, fallback) ==
  IF res.raised /\ res.exc \in caught THEN Returns(fallback) ELSE res

\* str.strip() on a text
RECURSIVE Strip(_)
Strip(v) ==
  IF v = <<>> THEN v
  ELSE IF Head(v) = " " THEN Strip(Tail(v))
  ELSE IF v[Len(v)] = " " THEN Strip(SubSeq(v, 1, Len(v) - 1))
  ELSE v

\* [item.strip() for item in value.split(',') if item.strip()]
RECURSIVE SplitComma(_)
SplitComma(v) ==
  LET commas == { i \in 1..Len(v) : v[i] = "," }
  IN  IF commas = {} THEN IF Strip(v) = <<>> THEN <<>> ELSE << Strip(v) >>
      ELSE LET c == CHOOSE i \in commas : \A j \in commas : i <= j
               first == Strip(SubSeq(v, 1, c - 1))
               rest == SplitComma(SubSeq(v, c + 1, Len(v)))
           IN  IF first = <<>> THEN rest ELSE <<first>> \o rest

get(config, section, key, fallback) ==
  Guarded(LibGet(config, section, key, fallback, "str"),
          {"NoSectionError", "NoOptionError"}, fallback)

get_int(config, section, key, fallback) ==
  Guarded(LibGet(config, section, key, fallback, "int"),
          {"NoSectionError", "NoOptionError", "ValueError"}, fallback)

get_bool(config, section, key, fallback) ==
  Guarded(LibGet(config, section, key, fallback, "boolean"),
          {"NoSectionError", "NoOptionError", "ValueError"}, fallback)

get_list(config, section, key, fallback) ==
  LET raw == RawGet(config, section, key)
  IN  Guarded(IF raw.raised THEN raw ELSE Returns(SplitComma(raw.value)),
              {"NoSectionError", "NoOptionError"}, fallback)

\* the settings the loader may hold: no section at all, or a section app
\* with one key
EmptyConfig == [s \in {} |-> <<>>]

ConfigChoices ==
  { EmptyConfig } \cup
  { [s \in {"app"} |-> [k \in {"max_file_size_mb"} |-> v]] :
      v \in SeqsUpTo(ValueChars, MaxValueLen) }

NoCall == [getter |-> "none", section |-> "", key |-> ""]

Getters == {"get", "get_int", "get_bool", "get_list"}

\* the fallback the caller supplies to each getter
FallbackOf(getter) ==
  CASE getter = "get" -> <<"f">>
    [] getter = "get_int" -> 7
    [] getter = "get_bool" -> TRUE
    [] getter = "get_list" -> << <<"f">> >>

LookupSections == {"app", "ui"}

LookupKeys == {"max_file_size_mb", "page_layout"}

CfgIdle ==
  /\ cfg_config = EmptyConfig
  /\ cfg_call = NoCall
  /\ cfg_result = Returns(None)
  /\ cfg_disk = <<>>
  /\ cfg_writes = 0
  /\ cfg_loaded = <<>>

CallGetter(c) ==
  CASE c.getter = "get" ->
         get(cfg_config, c.section, c.key, FallbackOf(c.getter))
    [] c.getter = "get_int" ->
         get_int(cfg_config, c.section, c.key, FallbackOf(c.getter))
    [] c.getter = "get_bool" ->
         get_bool(cfg_config, c.section, c.key, FallbackOf(c.getter))
    [] c.getter = "get_list" ->
         get_list(cfg_config, c.section, c.key, FallbackOf(c.getter))

\* a component looks a setting up
Lookup(c) ==
  /\ cfg_call = NoCall
  /\ cfg_call' = c
  /\ cfg_result' = CallGetter(c)
  /\ UNCHANGED << cfg_config, cfg_disk, cfg_writes, cfg_loaded >>

\* the settings of create_default_config (lines 25-69), each value the text
\* the code assigns
Default_app ==
  "max_file_size_mb" :> <<"5","0","0">>
  @@ "supported_formats" :> <<"m","p","4",",","a","v","i",",","m","o","v",",","m","k","v",",","w","e","b","m",",","f","l","v",",","m","4","v">>
  @@ "session_timeout_minutes" :> <<"3","0">>
  @@ "max_retry_attempts" :> <<"3">>
  @@ "cache_ttl_seconds" :> <<"3","6","0","0">>

Default_performance ==
  "enable_caching" :> <<"t","r","u","e">>
  @@ "enable_progress_tracking" :> <<"t","r","u","e">>
  @@ "enable_background_processing" :> <<"f","a","l","s","e">>

Default_security ==
  "validate_api_keys" :> <<"t","r","u","e">>
  @@ "log_sensitive_info" :> <<"f","a","l","s","e">>

Default_api ==
  "gemini_model" :> <<"g","e","m","i","n","i","-","2",".","0","-","f","l","a","s","h","-","l","i","t","e">>
  @@ "groq_model" :> <<"l","l","a","m","a","-","3",".","3","-","7","0","b","-","v","e","r","s","a","t","i","l","e">>
  @@ "request_timeout" :> <<"3","0","0">>

Default_ui ==
  "page_layout" :> <<"w","i","d","e">>
  @@ "show_usage_tips" :> <<"f","a","l","s","e">>
  @@ "enable_dark_mode" :> <<"f","a","l","s","e">>
  @@ "show_system_status" :> <<"t","r","u","e">>

Default_logging ==
  "log_level" :> <<"I","N","F","O">>
  @@ "log_file_path" :> <<>>
  @@ "enable_detailed_errors" :> <<"t","r","u","e">>

DefaultConfig ==
  "app" :> Default_app
  @@ "performance" :> Default_performance
  @@ "security" :> Default_security
  @@ "api" :> Default_api
  @@ "ui" :> Default_ui
  @@ "logging" :> Default_logging

\* the fallback of the property supported_formats (line 112)
SupportedFormatsFallback ==
  << <<"m","p","4">>,
     <<"a","v","i">>,
     <<"m","o","v">>,
     <<"m","k","v">>,
     <<"w","e","b","m">> >>

\* the properties of AppConfig (lines 106-164), each with the fallback it
\* passes to its getter
max_file_size_mb(config) ==
  get_int(config, "app", "max_file_size_mb", 500)

supported_formats(config) ==
  get_list(config, "app", "supported_formats", SupportedFormatsFallback)

session_timeout_minutes(config) ==
  get_int(config, "app", "session_timeout_minutes", 30)

max_retry_attempts(config) ==
  get_int(config, "app", "max_retry_attempts", 3)

cache_ttl_seconds(config) ==
  get_int(config, "app", "cache_ttl_seconds", 3600)

enable_caching(config) ==
  get_bool(config, "performance", "enable_caching", TRUE)

validate_api_keys_setting(config) ==
  get_bool(config, "security", "validate_api_keys", TRUE)

gemini_model(config) ==
  get(config, "api", "gemini_model", <<"g","e","m","i","n","i","-","2",".","0","-","f","l","a","s","h","-","l","i","t","e">>)

groq_model(config) ==
  get(config, "api", "groq_model", <<"l","l","a","m","a","-","3",".","3","-","7","0","b","-","v","e","r","s","a","t","i","l","e">>)

request_timeout(config) ==
  get_int(config, "api", "request_timeout", 300)

page_layout(config) ==
  get(config, "ui", "page_layout", <<"w","i","d","e">>)

show_usage_tips(config) ==
  get_bool(config, "ui", "show_usage_tips", FALSE)

show_system_status(config) ==
  get_bool(config, "ui", "show_system_status", TRUE)

log_level(config) ==
  get(config, "logging", "log_level", <<"I","N","F","O">>)

enable_detailed_errors(config) ==
  get_bool(config, "logging", "enable_detailed_errors", TRUE)

\* what every typed accessor of an instance gives
Accessors(config) ==
  [ max_file_size_mb |-> max_file_size_mb(config),
    supported_formats |-> supported_formats(config),
    session_timeout_minutes |-> session_timeout_minutes(config),
    max_retry_attempts |-> max_retry_attempts(config),
    cache_ttl_seconds |-> cache_ttl_seconds(config),
    enable_caching |-> enable_caching(config),
    validate_api_keys |-> validate_api_keys_setting(config),
    gemini_model |-> gemini_model(config),
    groq_model |-> groq_model(config),
    request_timeout |-> request_timeout(config),
    page_layout |-> page_layout(config),
    show_usage_tips |-> show_usage_tips(config),
    show_system_status |-> show_system_status(config),
    log_level |-> log_level(config),
    enable_detailed_errors |-> enable_detailed_errors(config) ]

\* the text after the first delimiter ('=' or ':') of a line
AfterDelimiter(line) ==
  LET ds == { i \in 1..Len(line) : line[i] \in {"=", ":"} }
  IN  IF ds = {} THEN <<>>
      ELSE SubSeq(line, 1 + (CHOOSE i \in ds : \A j \in ds : i <= j), Len(line))

\* ConfigParser.write (line 71): under each section header one line
\* "key = value" per option; the file is kept as the text that follows the
\* key on each line
Written(config) ==
  [sec \in DOMAIN config |->
     [k \in DOMAIN config[sec] |-> <<" ", "=", " ">> \o config[sec][k]]]

\* ConfigParser.read (line 21): the value of an option is the text after
\* the delimiter, stripped
Parsed(file) ==
  [sec \in DOMAIN file |->
     [k \in DOMAIN file[sec] |-> Strip(AfterDelimiter(file[sec][k]))]]

\* a settings file written by hand with other limits
CustomConfig ==
  "app" :> ("max_file_size_mb" :> <<"1">>
            @@ "supported_formats" :> <<"m", ",", " ", "4">>
            @@ "max_retry_attempts" :> <<"1">>)

\* the settings files that may exist before the first construction
SettingsFiles ==
  { Written(c) : c \in ConfigChoices \cup {DefaultConfig, CustomConfig} }

\* a constructor that saves the defaults over the file it has just read
Construct_AlwaysSaves(outcome, left) ==
  /\ Len(cfg_loaded) < MaxConstructions
  /\ outcome = "ok"
  /\ left = <<>>
  /\ cfg_config' = IF cfg_disk # <<>> THEN Parsed(cfg_disk[1]) ELSE DefaultConfig
  /\ cfg_disk' = << Written(DefaultConfig) >>
  /\ cfg_writes' = cfg_writes + 1
  /\ cfg_loaded' = Append(cfg_loaded, Accessors(cfg_config'))
  /\ UNCHANGED << cfg_call, cfg_result >>

\* AppConfig() (lines 12-71): the file is read when it exists; otherwise the
\* defaults are set and saved.  A save that raises (outcome write_raises)
\* ends the construction with the exception and leaves no file or an
\* empty one (left)
Construct(outcome, left) ==
  /\ Len(cfg_loaded) < MaxConstructions
  /\ IF cfg_disk # <<>>
       THEN /\ outcome = "ok"
            /\ left = <<>>
            /\ cfg_config' = Parsed(cfg_disk[1])
            /\ cfg_loaded' = Append(cfg_loaded, Accessors(cfg_config'))
            /\ UNCHANGED << cfg_disk, cfg_writes >>
       ELSE IF outcome = "ok"
         THEN /\ left = <<>>
              /\ cfg_config' = DefaultConfig
              /\ cfg_disk' = << Written(DefaultConfig) >>
              /\ cfg_writes' = cfg_writes + 1
              /\ cfg_loaded' = Append(cfg_loaded, Accessors(cfg_config'))
         ELSE /\ left \in { <<>>, << Written(EmptyConfig) >> }
              /\ cfg_disk' = left
              /\ UNCHANGED << cfg_config, cfg_writes, cfg_loaded >>
  /\ UNCHANGED << cfg_call, cfg_result >>

(***************************************************************************)
(* The batch scripts (src/unnamed/part_000: Version 1 and Version 2;        *)
(* src/new.py)                                                              *)
(***************************************************************************)
\* number of script executions followed
MaxBatchRuns == 3

VARIABLES
  \* the script being executed, where it is, and its execution number
  b_script, b_pc, b_run,
  \* the size of the file at the path the user entered
  b_size,
  \* the script's variable convert_test ("unbound" before its assignment)
  convert_test,
  \* the network calls made by this execution, in order
  b_calls,
  \* how the last execution ended
  b_exit,
  \* the texts the quiz agent of this execution works on, in a 1-tuple
  \* (the empty tuple before the quiz step)
  b_quiz_input,
  \* the documents of the MongoDB collection Video_Summarization
  collection

batchVars ==
  << b_script, b_pc, b_run, b_size, convert_test, b_calls, b_exit,
     b_quiz_input, collection >>

Scripts == {"version1", "version2", "new"}

\* sizes of the files a user may point a script to
BatchSizes == {0, 10}

BatchIdle ==
  /\ b_script = "none"
  /\ b_pc = "idle"
  /\ b_run = 0
  /\ b_size = 0
  /\ convert_test = "unbound"
  /\ b_calls = <<>>
  /\ b_exit = "none"
  /\ b_quiz_input = <<>>
  /\ collection = {}

StartScript(sc) ==
  /\ b_pc = "idle"
  /\ b_run < MaxBatchRuns
  /\ b_script' = sc
  /\ b_pc' = "prompt"
  /\ b_run' = b_run + 1
  /\ b_size' = 0
  /\ convert_test' = "unbound"
  /\ b_calls' = <<>>
  /\ b_exit' = "running"
  /\ b_quiz_input' = <<>>
  /\ UNCHANGED collection

\* the path prompt (part_000 lines 15-31 and 162-190, new.py lines 16-29):
\* a path that is not a file is asked again; Version 2 alone reads the
\* bytes and exits when they are empty
EnterPath(isFile, size) ==
  /\ b_pc = "prompt"
  /\ IF ~isFile
       THEN UNCHANGED << b_pc, b_size, b_exit >>
       ELSE /\ b_size' = size
            /\ IF b_script = "version2" /\ size = 0
                 THEN b_pc' = "idle" /\ b_exit' = "load_failed"
                 ELSE b_pc' = "describe" /\ UNCHANGED b_exit
  /\ UNCHANGED << b_script, b_run, convert_test, b_calls, b_quiz_input,
                  collection >>

\* a Version 2 in which the read of the unassigned convert_test goes through
DescribeBatch_UnboundGoesOn(ok) ==
  /\ b_pc = "describe"
  /\ b_calls' = Append(b_calls, "description")
  /\ IF ~ok
       THEN b_pc' = "idle" /\ b_exit' = "crashed" /\ UNCHANGED convert_test
       ELSE IF b_script = "version2"
              THEN b_pc' = "quiz" /\ UNCHANGED << b_exit, convert_test >>
              ELSE /\ convert_test' =
                        IF b_script = "version1"
                          THEN <<"get_content_as_string", b_run>>
                          ELSE <<"str", b_run>>
                   /\ b_pc' = "load"
                   /\ UNCHANGED b_exit
  /\ UNCHANGED << b_script, b_run, b_size, b_quiz_input, collection >>

\* video_agent.run (part_000 lines 77-84 and 234-242, new.py lines 46-53):
\* an exception of the call is not caught; Version 2 then reads
\* convert_test, which it never assigned
DescribeBatch(ok) ==
  /\ b_pc = "describe"
  /\ b_calls' = Append(b_calls, "description")
  /\ IF ~ok
       THEN b_pc' = "idle" /\ b_exit' = "crashed" /\ UNCHANGED convert_test
       ELSE IF b_script = "version2"
              THEN b_pc' = "idle" /\ b_exit' = "name_error" /\ UNCHANGED convert_test
              ELSE /\ convert_test' =
                        IF b_script = "version1"
                          THEN <<"get_content_as_string", b_run>>
                          ELSE <<"str", b_run>>
                   /\ b_pc' = "load"
                   /\ UNCHANGED b_exit
  /\ UNCHANGED << b_script, b_run, b_size, b_quiz_input, collection >>

\* a load that adds the document to what the collection holds
LoadKnowledge_NoRecreate(outcome) ==
  /\ b_pc = "load"
  /\ b_calls' = Append(b_calls, "vector_store")
  /\ \/ /\ outcome = "ok"
        /\ collection' = collection \cup {convert_test}
        /\ b_pc' = "quiz"
        /\ UNCHANGED b_exit
     \/ /\ outcome \in {"fails_before_drop", "fails_after_drop", "fails_after_insert"}
        /\ collection' = collection
        /\ b_pc' = "idle"
        /\ b_exit' = "load_failed"
  /\ UNCHANGED << b_script, b_run, b_size, convert_test, b_quiz_input >>

\* knowledge_base.load(recreate=True) (part_000 lines 108-115, new.py
\* lines 77-84): the collection is dropped and the document inserted; a
\* failure can come before the drop, after it, or after the insert
LoadKnowledge(outcome) ==
  /\ b_pc = "load"
  /\ b_calls' = Append(b_calls, "vector_store")
  /\ \/ /\ outcome = "ok"
        /\ collection' = {convert_test}
        /\ b_pc' = "quiz"
        /\ UNCHANGED b_exit
     \/ /\ outcome \in {"fails_before_drop", "fails_after_drop", "fails_after_insert"}
        /\ collection' = CASE outcome = "fails_before_drop" -> collection
                           [] outcome = "fails_after_drop" -> {}
                           [] OTHER -> {convert_test}
        /\ b_pc' = "idle"
        /\ b_exit' = "load_failed"
  /\ UNCHANGED << b_script, b_run, b_size, convert_test, b_quiz_input >>

\* a script that goes on to its quiz step after the handler of the load
QuizBatch_AfterFailedLoad ==
  /\ b_pc = "quiz" \/ (b_pc = "idle" /\ b_exit = "load_failed" /\ b_calls # <<>>)
  /\ b_calls' = Append(b_calls, "quiz")
  /\ b_quiz_input' =
       IF b_script = "version2" THEN << {convert_test} >> ELSE << collection >>
  /\ b_pc' = "idle"
  /\ b_exit' = "done"
  /\ UNCHANGED << b_script, b_run, b_size, convert_test, collection >>

\* quiz_agent.print_response (part_000 lines 147 and 283, new.py line 101):
\* the agent of Version 1 and of new.py searches the knowledge base, which
\* is the collection; the prompt of Version 2 embeds knowledge_text, the
\* value of convert_test
QuizBatch ==
  /\ b_pc = "quiz"
  /\ b_calls' = Append(b_calls, "quiz")
  /\ b_quiz_input' =
       IF b_script = "version2" THEN << {convert_test} >> ELSE << collection >>
  /\ b_pc' = "idle"
  /\ b_exit' = "done"
  /\ UNCHANGED << b_script, b_run, b_size, convert_test, collection >>

(***************************************************************************)
(* One iteration of a retry loop of the interactive application on its own  *)
(***************************************************************************)
\* how far from the two floors the content lengths tried are
ContentSlack == 1

VARIABLES
  \* the loop the iteration belongs to and retry_count when it starts
  att_step, att_retry,
  \* what the model call gives back, and how the iteration ends
  att_resp, att_result

attVars == << att_step, att_retry, att_resp, att_result >>

ContentLens ==
  {0, 1}
  \cup (MinDescriptionLen - ContentSlack)..(MinDescriptionLen + ContentSlack)
  \cup (MinQuizLen - ContentSlack)..(MinQuizLen + ContentSlack)

\* strip() never makes a text longer
AttemptResponses ==
  { Raised } \cup
  { Content(p[1], p[2]) :
      p \in { q \in ContentLens \X ContentLens : q[2] <= q[1] } }

AttIdle ==
  /\ att_step = "none"
  /\ att_retry = 0
  /\ att_resp = Raised
  /\ att_result = "none"

\* the way out of one iteration (lines 405-418 and 483-496): the loop ends
\* with success, goes round again, or gives up
IterationResult(accepted, count) ==
  IF accepted THEN "success"
  ELSE IF RetriesExhausted(count + 1) THEN "exhausted"
  ELSE "retry"

\* lines 345-418
DescriptionIteration ==
  /\ att_step = "desc"
  /\ att_result = "none"
  /\ att_result' = IterationResult(DescriptionAccepted(att_resp), att_retry)
  /\ UNCHANGED << att_step, att_retry, att_resp >>

\* lines 436-496
QuizIteration ==
  /\ att_step = "quiz"
  /\ att_result = "none"
  /\ att_result' = IterationResult(QuizAccepted(att_resp), att_retry)
  /\ UNCHANGED << att_step, att_retry, att_resp >>

(***************************************************************************)
(* Specifications                                                           *)
(***************************************************************************)
vars == << appVars, valVars, cfgVars, batchVars, attVars, keyVars, clVars >>

\* the interactive application
Init == AppInit /\ ValIdle /\ CfgIdle /\ BatchIdle /\ AttIdle /\ KeyIdle /\ ClIdle

otherVars == << valVars, cfgVars, batchVars, attVars, keyVars, clVars >>

Next ==
  \/ \E g \in GeminiKeys, k \in GroqKeys : EnterKeys(g, k) /\ UNCHANGED otherVars
  \/ \E f \in UploadChoices : UploadFile(f) /\ UNCHANGED otherVars
  \/ ToggleTips /\ UNCHANGED otherVars
  \/ ClickAnalyze /\ UNCHANGED otherVars
  \/ ClickReprocess /\ UNCHANGED otherVars
  \/ \E o \in {"ok", "write_raises", "create_raises"} :
        WriteTempFile(o, {}) /\ UNCHANGED otherVars
  \/ \E o \in {"ok", "fails"}, failing \in SUBSET Range(temp_files) :
        LoadVideo(o, failing) /\ UNCHANGED otherVars
  \/ \E resp \in DescriptionOutcomes, failing \in SUBSET Range(temp_files) :
        DescribeAttempt(resp, failing) /\ UNCHANGED otherVars
  \/ \E resp \in QuizOutcomes, failing \in SUBSET Range(temp_files) :
        QuizAttempt(resp, failing) /\ UNCHANGED otherVars
  \/ \E failing \in SUBSET Range(temp_files) :
        SuccessCleanup(failing) /\ UNCHANGED otherVars
  \/ ResetStatus /\ UNCHANGED otherVars
  \/ \E failing \in SUBSET Range(temp_files) :
        RaiseUnexpected(failing) /\ UNCHANGED otherVars

Spec == Init /\ [][Next]_vars

\* validate_video_file applied to every file of ValidateInputs
InitValidate ==
  /\ AppInit /\ CfgIdle /\ BatchIdle /\ AttIdle /\ KeyIdle /\ ClIdle
  /\ val_file \in ValidateInputs
  /\ val_raises \in BOOLEAN
  /\ val_result = NoResult

NextValidate == Validate /\ UNCHANGED << appVars, cfgVars, batchVars, attVars, keyVars, clVars >>

SpecValidate == InitValidate /\ [][NextValidate]_vars

\* the getters of AppConfig applied to every settings content of ConfigChoices
InitConfig ==
  /\ AppInit /\ ValIdle /\ BatchIdle /\ AttIdle /\ KeyIdle /\ ClIdle
  /\ cfg_config \in ConfigChoices
  /\ cfg_call = NoCall
  /\ cfg_result = Returns(None)
  /\ cfg_disk = << Written(cfg_config) >>
  /\ cfg_writes = 0
  /\ cfg_loaded = <<>>

NextConfig ==
  /\ \E g \in Getters, sec \in LookupSections, k \in LookupKeys :
        Lookup([getter |-> g, section |-> sec, key |-> k])
  /\ UNCHANGED << appVars, valVars, batchVars, attVars, keyVars, clVars >>

SpecConfig == InitConfig /\ [][NextConfig]_vars

\* the batch scripts, executed one after the other on one collection
InitBatch == AppInit /\ ValIdle /\ CfgIdle /\ BatchIdle /\ AttIdle /\ KeyIdle /\ ClIdle

NextBatch ==
  \/ \E sc \in Scripts :
        StartScript(sc) /\ UNCHANGED << appVars, valVars, cfgVars, attVars, keyVars, clVars >>
  \/ \E isFile \in BOOLEAN, size \in BatchSizes :
        EnterPath(isFile, size) /\ UNCHANGED << appVars, valVars, cfgVars, attVars, keyVars, clVars >>
  \/ \E ok \in BOOLEAN :
        DescribeBatch(ok) /\ UNCHANGED << appVars, valVars, cfgVars, attVars, keyVars, clVars >>
  \/ \E o \in {"ok", "fails_before_drop", "fails_after_drop", "fails_after_insert"} :
        LoadKnowledge(o) /\ UNCHANGED << appVars, valVars, cfgVars, attVars, keyVars, clVars >>
  \/ QuizBatch /\ UNCHANGED << appVars, valVars, cfgVars, attVars, keyVars, clVars >>

SpecBatch == InitBatch /\ [][NextBatch]_vars

\* one iteration of either retry loop on every response of AttemptResponses
InitAttempt ==
  /\ AppInit /\ ValIdle /\ CfgIdle /\ BatchIdle /\ KeyIdle /\ ClIdle
  /\ att_step \in {"desc", "quiz"}
  /\ att_retry \in 0..(max_retries - 1)
  /\ att_resp \in AttemptResponses
  /\ att_result = "none"

NextAttempt ==
  \/ DescriptionIteration /\ UNCHANGED << appVars, valVars, cfgVars, batchVars, keyVars, clVars >>
  \/ QuizIteration /\ UNCHANGED << appVars, valVars, cfgVars, batchVars, keyVars, clVars >>

SpecAttempt == InitAttempt /\ [][NextAttempt]_vars

\* validate_api_keys applied to every pair of keys of KeyInputs
InitKeys ==
  /\ AppInit /\ ValIdle /\ CfgIdle /\ BatchIdle /\ AttIdle /\ ClIdle
  /\ key_gemini \in KeyInputs
  /\ key_groq \in KeyInputs
  /\ key_result = NoResult

NextKeys ==
  ValidateKeys /\ UNCHANGED << appVars, valVars, cfgVars, batchVars, attVars, clVars >>

SpecKeys == InitKeys /\ [][NextKeys]_vars

\* cleanup_temp_files called up to MaxCleanupCalls times on every list of up
\* to MaxPaths paths, with every set of existing files
InitCleanup ==
  /\ AppInit /\ ValIdle /\ CfgIdle /\ BatchIdle /\ AttIdle /\ KeyIdle
  /\ cl_disk \in SUBSET CleanupPaths
  /\ cl_paths \in SeqsUpTo(CleanupPaths, MaxPaths)
  /\ cl_pc = "idle"
  /\ cl_i = 1
  /\ cl_disk0 = {}
  /\ cl_attempted = {}
  /\ cl_failed = {}
  /\ cl_calls = 0
  /\ cl_unlinks = 0

NextCleanup ==
  \/ CallCleanup
        /\ UNCHANGED << appVars, valVars, cfgVars, batchVars, attVars, keyVars >>
  \/ \E raises \in BOOLEAN :
        CleanupStep(raises)
          /\ UNCHANGED << appVars, valVars, cfgVars, batchVars, attVars, keyVars >>
  \/ CleanupReturn
        /\ UNCHANGED << appVars, valVars, cfgVars, batchVars, attVars, keyVars >>

SpecCleanup == InitCleanup /\ [][NextCleanup]_vars

\* the files validated next to the settings loader
SettingsUploads ==
  { [present |-> TRUE, name |-> <<"m", ".", "m", "p", "4">>, size |-> 1, id |-> 1],
    [present |-> TRUE, name |-> <<"m", ".", "m", "p", "4">>,
     size |-> 2 * BytesPerMB, id |-> 1],
    [present |-> TRUE, name |-> <<"m", ".", "m">>, size |-> 1, id |-> 1] }

\* the process starts with or without a settings file, constructs AppConfig
\* (the module-level config of utils.py), validates an upload and runs an
\* iteration of a retry loop
InitSettings ==
  /\ AppInit /\ BatchIdle /\ KeyIdle /\ ClIdle
  /\ cfg_config = EmptyConfig
  /\ cfg_call = NoCall
  /\ cfg_result = Returns(None)
  /\ cfg_disk \in { <<>> } \cup { << f >> : f \in SettingsFiles }
  /\ cfg_writes = 0
  /\ cfg_loaded = <<>>
  /\ val_file \in SettingsUploads
  /\ val_raises = FALSE
  /\ val_result = NoResult
  /\ att_step \in {"desc", "quiz"}
  /\ att_retry \in 0..(max_retries - 1)
  /\ att_resp \in { Raised, Content(MinQuizLen, MinQuizLen) }
  /\ att_result = "none"

NextSettings ==
  \/ \E outcome \in {"ok", "write_raises"},
        left \in { <<>>, << Written(EmptyConfig) >> } :
        Construct(outcome, left)
          /\ UNCHANGED << appVars, valVars, batchVars, attVars, keyVars, clVars >>
  \/ Validate /\ UNCHANGED << appVars, cfgVars, batchVars, attVars, keyVars, clVars >>
  \/ DescriptionIteration /\ UNCHANGED << appVars, valVars, cfgVars, batchVars, keyVars, clVars >>
  \/ QuizIteration /\ UNCHANGED << appVars, valVars, cfgVars, batchVars, keyVars, clVars >>

SpecSettings == InitSettings /\ [][NextSettings]_vars

\* every flow: a user works with the interactive application or executes
\* the batch scripts
NextFlows ==
  \/ BatchIdle /\ Next
  \/ AppInit /\ NextBatch

SpecFlows == Init /\ [][NextFlows]_vars

(***************************************************************************)
(* Properties of the interactive application                                *)
(***************************************************************************)
\* the run that produced a stored description or quiz
DescRun(text) == text[3]
QuizRun(text) == text[2][3]

\* the session is idle after a processing run
IdleAfterRun == pc = "idle" /\ processing_status = "idle" /\ run > 0

\* both results of the current run are in the session state
BothStoredOfRun ==
  /\ analysis_results # None /\ DescRun(analysis_results) = run
  /\ quiz_results # None /\ QuizRun(quiz_results) = run

\* nothing of the current run is in the session state
NothingStoredOfRun ==
  /\ analysis_results = None \/ DescRun(analysis_results) # run
  /\ quiz_results = None \/ QuizRun(quiz_results) # run

\* C1: no partial success is persisted: whenever the session is idle after
\* a processing run, either both the description and the quiz of that run
\* are stored or nothing of that run is stored.
C1_NoPartialSuccess ==
  IdleAfterRun => (BothStoredOfRun \/ NothingStoredOfRun)

\* the script has rendered a submission of the file now in the uploader
SubmissionRendered ==
  /\ pc = "idle"
  /\ uploaded_file.present
  /\ view \in {"cached", "ready", "disabled", "nofile"}

C3_RetryLoop ==
  /\ [](/\ lastExit = "desc_exhausted" =>
             attempts.desc = max_retries /\ sleeps.desc = max_retries - 1
        /\ lastExit = "quiz_exhausted" =>
             attempts.quiz = max_retries /\ sleeps.quiz = max_retries - 1
        /\ pc = "describe" => sleeps.desc = attempts.desc
        /\ pc = "quiz" => sleeps.quiz = attempts.quiz
        /\ pc \in {"quiz", "cleanup", "reset"} =>
             attempts.desc = sleeps.desc + 1 /\ attempts.desc <= max_retries
        /\ pc \in {"cleanup", "reset"} =>
             attempts.quiz = sleeps.quiz + 1 /\ attempts.quiz <= max_retries)
  /\ [][(pc \in {"quiz", "cleanup", "reset"} /\ run' = run)
           => attempts'.desc <= attempts.desc]_vars
  /\ [][(pc \in {"cleanup", "reset"} /\ run' = run)
           => attempts'.quiz <= attempts.quiz]_vars

C3_Witness ==
  /\ lastExit = "quiz_exhausted"
  /\ attempts = [desc |-> 2, quiz |-> max_retries]
  /\ sleeps = [desc |-> 1, quiz |-> max_retries - 1]

\* C4: on every exit path of the processing action, every temporary file
\* the run created has been passed to the cleanup pass.
C4_TempFilesScheduled ==
  (pc = "idle" /\ lastExit \in {"success", "load_failure", "desc_exhausted",
                                "quiz_exhausted", "exception"})
     => created \subseteq scheduled

\* the step taken is the reprocess action: only it clears the stored hash
ReprocessStep == processed_file_hash # None /\ processed_file_hash' = None

FailureExits == {"load_failure", "desc_exhausted", "quiz_exhausted", "exception"}

\* C9: a step failure inside processing (load failure, retry exhaustion of
\* either step, any other exception) runs the cleanup pass on the tracked
\* temporary files, sets processing_status to idle and ends the action: no
\* later pipeline step runs (no quiz call after a failed description step,
\* no store after a failed quiz step).
C9_FailureCleansUp ==
  /\ []((pc = "idle" /\ lastExit \in FailureExits) =>
          /\ cleanups >= 1
          /\ Range(temp_files) \subseteq scheduled
          /\ processing_status = "idle"
          /\ lastExit = "load_failure" => attempts = [desc |-> 0, quiz |-> 0]
          /\ lastExit = "desc_exhausted" =>
               /\ attempts.quiz = 0
               /\ analysis_results = None \/ DescRun(analysis_results) # run
          /\ lastExit = "quiz_exhausted" =>
               quiz_results = None \/ QuizRun(quiz_results) # run)
  /\ [][(lastExit \in FailureExits /\ run' = run) =>
          /\ pc' = "idle"
          /\ attempts'.desc <= attempts.desc
          /\ attempts'.quiz <= attempts.quiz
          /\ cacheVars' = cacheVars \/ ReprocessStep]_vars

C9_Witness ==
  /\ pc = "idle"
  /\ lastExit = "desc_exhausted"
  /\ cleanups = 1
  /\ created = {run}
  /\ run \notin disk
  /\ processing_status = "idle"

\* C10: a run that completes both stages leaves its own description and
\* quiz stored under the hash of the uploaded bytes and the status idle;
\* the hash is stored only together with both results, so a stored hash
\* implies a stored description and a stored quiz.
C10_CompletionStoresPair ==
  /\ [](processed_file_hash # None =>
          analysis_results # None /\ quiz_results # None)
  /\ []((pc = "idle" /\ view = "result") =>
          /\ lastExit = "success"
          /\ processing_status = "idle"
          /\ analysis_results = knowledge_text
          /\ DescRun(analysis_results) = run
          /\ quiz_results = quiz_content
          /\ QuizRun(quiz_results) = run
          /\ processed_file_hash = <<"md5">> \o BytesOf(uploaded_file))
  /\ [][(processed_file_hash' # processed_file_hash /\ processed_file_hash' # None) =>
          /\ analysis_results' # None /\ DescRun(analysis_results') = run
          /\ quiz_results' # None /\ QuizRun(quiz_results') = run]_vars

C10_Witness ==
  /\ pc = "idle"
  /\ view = "result"
  /\ processed_file_hash = <<"md5">> \o BytesOf(uploaded_file)
  /\ run = 2

\* C11: processing_status goes from idle to processing only in a step of
\* the Analyze click, taken with the status idle on a page that shows the
\* enabled button, for an uploaded file that validate_video_file accepts in
\* that script run; no run starts while the status is processing; the
\* status only takes the values idle and processing.
C11_IdleToProcessing ==
  /\ [](processing_status \in {"idle", "processing"})
  /\ [][(processing_status # "processing" /\ processing_status' = "processing") =>
          /\ ClickAnalyze
          /\ pc = "idle"
          /\ uploaded_file' = uploaded_file
          /\ uploaded_file.present
          /\ validate_video_file(uploaded_file).ok
          /\ pc' = "tmpfile"
          /\ run' = run + 1]_vars
  /\ [][run' # run => processing_status = "idle" /\ pc = "idle"]_vars
  /\ [][(pc # "idle" /\ ClickAnalyze) =>
          pc' = "idle" /\ run' = run /\ disk' = disk /\ attempts'.desc = 0]_vars

\* a second processing run has started, after the first one ended
C11_Witness ==
  /\ pc = "tmpfile"
  /\ processing_status = "processing"
  /\ validate_video_file(uploaded_file).ok
  /\ run = 2
  /\ disk = {}

(***************************************************************************)
\* the session state holds an entry the cached-results branch can serve
\* for the bytes of hash h
ServableEntry(h, hash, analysis, quiz) ==
  h # None /\ hash = h /\ Truthy(analysis) /\ Truthy(quiz)

\* a valid file whose hash differs from the stored one is submitted
OtherHashSubmitted ==
  /\ uploaded_file' # uploaded_file
  /\ uploaded_file'.present
  /\ validate_video_file(uploaded_file').ok
  /\ processed_file_hash # None
  /\ get_file_hash(uploaded_file') # processed_file_hash

\* the quiz step of the run in progress stores its results
StoreStep ==
  /\ pc = "quiz"
  /\ pc' = "cleanup"
  /\ processed_file_hash' = file_hash
  /\ quiz_results' = QuizText(knowledge_text)

\* C19 (as stated): once a file whose hash differs from processed_file_hash
\* is submitted, the entry cached before is no longer held as a servable
\* entry.
C19_NewHashInvalidates ==
  [][OtherHashSubmitted =>
       ~ServableEntry(processed_file_hash, processed_file_hash',
                      analysis_results', quiz_results')]_vars

\* C19 (amended): a file whose hash differs from processed_file_hash is not
\* served from the cache, and submitting it leaves the three session fields
\* as they are; the stored hash and quiz change only when a run stores the
\* results of its quiz step or on a reprocess, so the earlier bytes,
\* submitted again before that, are served from the cache.
C19_EntryKeptUntilStored ==
  /\ [](view = "cached" => processed_file_hash = get_file_hash(uploaded_file))
  /\ [][uploaded_file' # uploaded_file => cacheVars' = cacheVars]_vars
  /\ [][processed_file_hash' # processed_file_hash =>
          ReprocessStep \/ StoreStep]_vars
  /\ [][quiz_results' # quiz_results => ReprocessStep \/ StoreStep]_vars
  /\ [][(OtherHashSubmitted /\ pc = "idle") =>
          /\ view' \in {"ready", "disabled"}
          /\ ServableEntry(processed_file_hash, processed_file_hash',
                           analysis_results', quiz_results')]_vars

\* the first bytes are served from the cache after a run on other bytes
\* that stored nothing
C19_Witness ==
  /\ view = "cached"
  /\ run = 2
  /\ DescRun(served[1]) = 1
  /\ QuizRun(served[2]) = 1
  /\ uploaded_file.id = 1

\* C20: what the cached-results branch serves for an uploaded file of hash
\* h is the description and the quiz of one and the same processing run on
\* bytes of hash h.
C20_ServedPairOfOneRun ==
  view = "cached" =>
    /\ served[1][2] = get_file_hash(uploaded_file)
    /\ served[2] = QuizText(served[1])

\* C21: processing_status is processing only while a processing run is
\* executing: when no run is executing, also after a run that a user
\* interaction stopped in the middle, the status is idle and the Analyze
\* button is not shown disabled.
C21_StatusIdleOutsideRun ==
  pc = "idle" => (processing_status = "idle" /\ view # "disabled")

(***************************************************************************)
(* Properties of one iteration of a retry loop                              *)
(***************************************************************************)
\* the floor of the step the iteration belongs to
FloorOf(step) == IF step = "desc" THEN MinDescriptionLen ELSE MinQuizLen

\* C12: an attempt counts as successful only if the returned content,
\* stripped, has at least 50 characters (description) or 100 (quiz); a call
\* that raises and any shorter or empty content are a failed attempt, retried
\* under the same policy.
C12_ShortContentFails ==
  att_result # "none" =>
    /\ att_result = "success" <=>
          (~att_resp.raised /\ att_resp.stripped >= FloorOf(att_step))
    /\ att_result # "success" =>
          att_result = IterationResult(FALSE, att_retry)

(***************************************************************************)
(* Properties of validate_api_keys                                          *)
(***************************************************************************)
\* the key starts with the two characters AI
StartsWithAI(key) ==
  key.len >= 2 /\ Len(key.head) >= 2 /\ key.head[1] = "A" /\ key.head[2] = "I"

\* the key starts with the four characters gsk_
StartsWithGsk(key) ==
  /\ key.len >= 4 /\ Len(key.head) >= 4
  /\ key.head[1] = "g" /\ key.head[2] = "s"
  /\ key.head[3] = "k" /\ key.head[4] = "_"

\* C15: validate_api_keys accepts a pair of keys exactly when both are
\* non-empty, the Gemini key starts with AI and has at least 30 characters
\* and the Groq key starts with gsk_ and has at least 40; otherwise it
\* returns a failure with a message, and it never raises.
C15_KeysAccepted ==
  key_result # NoResult =>
    /\ key_result.ok <=>
          /\ key_gemini.len > 0 /\ key_groq.len > 0
          /\ StartsWithAI(key_gemini) /\ key_gemini.len >= 30
          /\ StartsWithGsk(key_groq) /\ key_groq.len >= 40
    /\ key_result.ok => key_result.msg = "API keys validated successfully"
    /\ ~key_result.ok =>
          key_result.msg \in { "Both API keys are required",
                               "Invalid Gemini API key format",
                               "Invalid Groq API key format" }

\* keys of exactly the minimum lengths have been accepted
C15_Witness ==
  /\ key_result.ok
  /\ key_gemini.len = 30
  /\ key_groq.len = 40

\* the two keys as entered are non-empty and well formed
KeysWellFormed(g, k) ==
  /\ g.len > 0 /\ k.len > 0
  /\ StartsWithAI(g) /\ g.len >= 30
  /\ StartsWithGsk(k) /\ k.len >= 40

\* C23: in a script run no temporary file is written and no hosted-model
\* call is made unless the two keys entered in that run are accepted;
\* api_keys_validated is recomputed by every script run from the keys of
\* that run, whatever it was before, and is false when a key is empty or
\* malformed.
C23_NoWorkWithoutKeys ==
  /\ [](api_keys_validated = KeysWellFormed(gemini_api_key, groq_api_key))
  /\ [](pc # "idle" => KeysWellFormed(gemini_api_key, groq_api_key))
  /\ [][(\/ created' \notin {created, {}}
         \/ disk' \ disk # {}
         \/ attempts'.desc > attempts.desc
         \/ attempts'.quiz > attempts.quiz)
          => /\ KeysWellFormed(gemini_api_key', groq_api_key')
             /\ api_keys_validated'
             /\ << gemini_api_key', groq_api_key' >>
                  = << gemini_api_key, groq_api_key >>]_vars
  /\ [][pc' = "idle" =>
          api_keys_validated' = KeysWellFormed(gemini_api_key', groq_api_key')]_vars

\* after a processing run was started, a malformed key was entered and the
\* flag, true during that run, is false
C23_Witness ==
  /\ run >= 1
  /\ pc = "idle"
  /\ gemini_api_key.len > 0
  /\ groq_api_key.len = GroqMinLen - 1
  /\ ~api_keys_validated
  /\ view = "nokeys"

(***************************************************************************)
(* Properties of validate_video_file                                        *)
(***************************************************************************)
\* the lowercase suffix of a name: its longest tail without a '.', in
\* lower case
LowercaseSuffix(name) ==
  LET n == Len(name)
      k == CHOOSE k \in 0..n :
             /\ \A i \in (n - k + 1)..n : name[i] # "."
             /\ k = n \/ name[n - k] = "."
  IN  Lower(SubSeq(name, n - k + 1, n))

\* C5: validate_video_file rejects an uploaded file (an object whose size
\* and name can be read) exactly when its size exceeds 500 MB
\* (500*1024*1024 bytes), or its lowercase suffix is not in the allow-list,
\* or its size is zero; a file with a disallowed extension is rejected
\* whatever its size.
C5_ValidateRejects ==
  (val_result # NoResult /\ val_file.present /\ ~val_raises) =>
     /\ val_result.ok <=>
          ~ \/ val_file.size > 500 * 1024 * 1024
            \/ LowercaseSuffix(val_file.name) \notin SUPPORTED_VIDEO_FORMATS
            \/ val_file.size = 0
     /\ LowercaseSuffix(val_file.name) \notin SUPPORTED_VIDEO_FORMATS
          => ~val_result.ok

\* a file of exactly the maximum size with an mixed-case allowed extension
\* has been accepted
C5_Witness ==
  /\ val_result.ok
  /\ val_file.size = 500 * 1024 * 1024
  /\ val_file.name = <<"m", ".", "M", "p", "4">>

\* the message of the first rule, in the order presence, size, extension,
\* emptiness, that the file violates
FirstViolatedRule(f) ==
  IF ~f.present THEN "No file uploaded"
  ELSE IF f.size > 500 * 1024 * 1024 THEN "File size exceeds maximum allowed size"
  ELSE IF LowercaseSuffix(f.name) \notin SUPPORTED_VIDEO_FORMATS
    THEN "Unsupported file format"
  ELSE IF f.size = 0 THEN "File is empty"
  ELSE "File validation successful"

\* C22: validate_video_file returns the message of the first rule the file
\* violates, in the order presence, size, extension, emptiness (an
\* oversized file with a disallowed extension gets the size message, an
\* empty one with a disallowed extension the unsupported-format message);
\* an exception raised while the file is inspected gives a rejection.
C22_FirstRuleDecides ==
  val_result # NoResult =>
    /\ (val_file.present /\ val_raises) =>
          (~val_result.ok /\ val_result.msg = "Error validating file")
    /\ ~(val_file.present /\ val_raises) =>
          /\ val_result.msg = FirstViolatedRule(val_file)
          /\ val_result.ok <=> val_result.msg = "File validation successful"

\* an empty file with a disallowed extension got the unsupported-format
\* message
C22_Witness ==
  /\ val_file.present
  /\ val_file.size = 0
  /\ val_file.name = <<"m", ".", "m">>
  /\ ~val_raises
  /\ val_result = [ok |-> FALSE, msg |-> "Unsupported file format"]

(***************************************************************************)
(* Properties of the batch scripts                                          *)
(***************************************************************************)
\* C6: a 0-byte file is rejected before any network call: an execution
\* whose ingested file is empty makes no description, vector-store or quiz
\* call.
C6_EmptyFileNoCall ==
  (b_script # "none" /\ b_pc # "prompt" /\ b_size = 0) => b_calls = <<>>

LoadFailed == b_exit = "load_failed" /\ b_calls # <<>>

\* C16: a failure of the knowledge load is caught and ends the execution:
\* the quiz step is not invoked after it, the load is made once (no retry)
\* and the collection stays as the failed load left it (no rollback).
C16_LoadFailureEndsRun ==
  /\ [](LoadFailed =>
          /\ b_pc = "idle"
          /\ b_calls = <<"description", "vector_store">>
          /\ b_quiz_input = <<>>)
  /\ [][(LoadFailed /\ b_run' = b_run) =>
          /\ b_calls' = b_calls
          /\ collection' = collection
          /\ b_exit' = b_exit]_vars
  /\ [][(b_pc = "load" /\ b_exit' = "load_failed") =>
          collection' \in { collection, {}, {convert_test} }]_vars

\* a second execution has failed in its load after the collection was
\* dropped: nothing of the first execution is left
C16_Witness ==
  /\ LoadFailed
  /\ b_run = 2
  /\ b_script = "version1"
  /\ collection = {}

\* C17: the knowledge load is a full replace: when an execution has
\* completed, the collection holds exactly the one description document of
\* that execution, whatever the earlier executions left in it.
C17_LoadReplaces ==
  /\ []((b_pc = "quiz" \/ b_exit = "done") =>
          /\ collection = {convert_test}
          /\ convert_test[2] = b_run)
  /\ [][(b_pc = "load" /\ b_pc' = "quiz") => collection' = {convert_test}]_vars

\* a third execution has completed on a collection that held the document
\* of an earlier one
C17_Witness ==
  /\ b_run = 3
  /\ b_exit = "done"
  /\ collection = { <<"get_content_as_string", 3>> }

(***************************************************************************)
(* Properties of the settings loader                                        *)
(***************************************************************************)
\* the values the instance constructed last holds
Configured == cfg_loaded[Len(cfg_loaded)]

\* C14: the size maximum, the extension allow-list and the attempt count
\* that the interactive flow applies are the values held by the loader:
\* validate_video_file rejects by max_file_size_mb and supported_formats,
\* and a retry loop gives up after max_retry_attempts attempts.
C14_ConfiguredLimitsApplied ==
  Len(cfg_loaded) >= 1 =>
    /\ ( /\ val_result # NoResult
         /\ ~Configured.max_file_size_mb.raised
         /\ ~Configured.supported_formats.raised ) =>
          (val_result.ok <=>
             ~ \/ val_file.size > Configured.max_file_size_mb.value * BytesPerMB
               \/ LowercaseSuffix(val_file.name)
                     \notin Range(Configured.supported_formats.value)
               \/ val_file.size = 0)
    /\ ( /\ att_result \notin {"none", "success"}
         /\ ~Configured.max_retry_attempts.raised ) =>
          (att_result = "exhausted" <=>
             att_retry + 1 >= Configured.max_retry_attempts.value)

\* the looked-up section or key is missing
LookupMissing ==
  \/ cfg_call.section \notin DOMAIN cfg_config
  \/ cfg_call.key \notin DOMAIN cfg_config[cfg_call.section]

\* the stored text is not a value of the requested type: not a decimal
\* integer for get_int, not a boolean word for get_bool
LookupFailsToParse ==
  /\ ~LookupMissing
  /\ LET v == cfg_config[cfg_call.section][cfg_call.key]
     IN  \/ /\ cfg_call.getter = "get_int"
            /\ v = <<>> \/ \E i \in 1..Len(v) : v[i] \notin Digits
         \/ /\ cfg_call.getter = "get_bool"
            /\ v \notin { <<"1">>, <<"0">> }

\* C7: a getter looking up a missing section or key, or a value that does
\* not parse as the requested type, returns exactly the caller's fallback
\* and does not raise.
C7_GetterFallback ==
  (cfg_call # NoCall /\ (LookupMissing \/ LookupFailsToParse)) =>
     /\ ~cfg_result.raised
     /\ cfg_result.value = FallbackOf(cfg_call.getter)

\* a construction has completed in this step
Constructed == Len(cfg_loaded') = Len(cfg_loaded) + 1

\* C18: constructing AppConfig reads the settings file when it exists and
\* writes nothing; when it does not exist it sets the defaults and writes
\* them, once; a later construction reads that file, writes nothing, and
\* every typed accessor gives what it gave after the first construction.
C18_ConstructReadsOrPersists ==
  /\ [][(Constructed /\ cfg_disk # <<>>) =>
          /\ cfg_disk' = cfg_disk
          /\ cfg_writes' = cfg_writes
          /\ cfg_config' = Parsed(cfg_disk[1])]_vars
  /\ [][(Constructed /\ cfg_disk = <<>>) =>
          /\ cfg_config' = DefaultConfig
          /\ cfg_disk' = << Written(DefaultConfig) >>
          /\ cfg_writes' = cfg_writes + 1]_vars
  /\ [](cfg_writes <= 1)
  /\ [](\A i \in 1..Len(cfg_loaded) : cfg_loaded[i] = cfg_loaded[1])
  /\ []((Len(cfg_loaded) >= 1 /\ cfg_writes = 1) =>
          cfg_loaded[1] = Accessors(Parsed(cfg_disk[1])))

\* the second construction has read the defaults the first one wrote
C18_Witness ==
  /\ Len(cfg_loaded) = 2
  /\ cfg_writes = 1
  /\ cfg_disk = << Written(DefaultConfig) >>
  /\ cfg_loaded[2].supported_formats.value[7] = <<"m", "4", "v">>
  /\ cfg_loaded[2].max_file_size_mb.value = MAX_FILE_SIZE_MB


(***************************************************************************)
(* Properties of cleanup_temp_files                                         *)
(***************************************************************************)
\* C24: cleanup_temp_files is best-effort: it never raises; a failure to
\* delete one file does not keep it from trying the files that follow in
\* the list (every listed file that exists at its turn is tried, a listed
\* file is left only when os.unlink raised on it, and no other file is
\* touched); a call made when the listed files are gone changes nothing
\* and calls os.unlink on nothing.
C24_BestEffort ==
  /\ [](cl_pc # "raised")
  /\ [](cl_pc = "returned" =>
        /\ \A file_path \in Range(cl_paths) :
              /\ file_path \in cl_disk0 => file_path \in cl_attempted
              /\ file_path \in cl_disk => file_path \in cl_failed
        /\ cl_disk = cleanup_temp_files(cl_disk0, Range(cl_paths),
                                         cl_disk \cap cl_failed))
  /\ [][(cl_pc = "loop" /\ cl_i <= Len(cl_paths))
          => (cl_pc' = "loop" /\ cl_i' = cl_i + 1)]_vars
  /\ [][(cl_pc = "loop" /\ cl_disk0 \cap Range(cl_paths) = {})
          => (cl_disk' = cl_disk /\ cl_unlinks' = cl_unlinks)]_vars

\* os.unlink raised on the first file of the list and the second file was
\* deleted all the same
C24_Witness ==
  /\ cl_pc = "returned"
  /\ cl_paths = <<1, 2>>
  /\ cl_disk0 = {1, 2}
  /\ cl_failed = {1}
  /\ cl_disk = {1}

====
